---- MODULE Spec2Model ----
(***************************************************************************)
(* A model of the Go target rules (dependency inference and injection,     *)
(* main-package resolution, target generation from a go_mod) in            *)
(*   src/src/python/pants/backend/go/target_type_rules.py                  *)
(* and of the resources classpath rule in                                  *)
(*   src/src/python/pants/jvm/resources.py                                 *)
(*                                                                         *)
(* Paths (directories, import paths, generated names) are sequences of     *)
(* path components: "pkg/sub" is <<"pkg", "sub">>, "" is <<>>, and joining  *)
(* with "/" is concatenation.                                              *)
(***************************************************************************)
EXTENDS Integers, Sequences, FiniteSets, TLC

VARIABLES
    all_targets,      \* Go: the targets of the repository, in address order
    package_mapping,  \* Go: the ImportPathToPackages the engine has memoized
    rule,             \* Go: the rule that ran last ("none" before any)
    request,          \* Go: the request of that rule
    result,           \* Go: what the rule returned or raised
    log,              \* Go: the log records the rule emitted
    component,        \* JVM: per unit, its request (kind, prerequisite, dependencies)
    pc,               \* JVM: per unit, the position of its rule
    fallibles,        \* JVM: per unit, the results its MultiGet returned
    direct_dependency_classpath_entries, \* JVM: per unit, that local
    cpe,              \* JVM: per unit, the entry of its own jar
    entry,            \* JVM: per unit, the FallibleClasspathEntry returned
    error,            \* JVM: per unit, the unit whose jar process failed (0: none raised)
    calls,            \* JVM: per unit, the engine requests its rule issued
    generator,        \* Gen: request.generator.address
    engine,           \* Gen: what the engine answers to the rule's requests
    gen_pc,           \* Gen: the position of generate_targets_from_go_mod
    completions,      \* Gen: the sub-requests of the awaited MultiGet that
                      \*      have completed, in completion order
    generated_targets,\* Gen: the targets handed to GeneratedTargets
    invocations       \* Gen: what the earlier invocations returned

go_vars == <<all_targets, package_mapping, rule, request, result, log>>
jvm_vars == <<component, pc, fallibles, direct_dependency_classpath_entries,
              cpe, entry, error, calls>>
gen_vars == <<generator, engine, gen_pc, completions, generated_targets, invocations>>
vars == <<go_vars, jvm_vars, gen_vars>>

----------------------------------------------------------------------------
(* Generic helpers on sequences.                                           *)

Range(s) == {s[i] : i \in 1..Len(s)}

IsPrefix(p, s) == Len(p) <= Len(s) /\ SubSeq(s, 1, Len(p)) = p

Count(s, x) == Cardinality({i \in 1..Len(s) : s[i] = x})

SeqsUpTo(S, n) == UNION {[1..k -> S] : k \in 0..n}

----------------------------------------------------------------------------
(* Bounds of the Go model.                                                 *)

\* The longest production, test or external-test import list of a package.
MaxImports == 1

----------------------------------------------------------------------------
(* Addresses and targets.                                                  *)

Address(spec_path, target_name) ==
    [spec_path |-> spec_path, target_name |-> target_name, generated_name |-> <<>>]

create_generated(addr, generated_name) ==
    [addr EXCEPT !.generated_name = generated_name]

\* The fields a target type declares; import_path, subpath and sources are
\* <<>> where the target type has no such field.
GoModTarget(addr) ==
    [alias |-> "go_mod", address |-> addr, import_path |-> <<>>, subpath |-> <<>>,
     sources |-> <<>>, module_path |-> <<>>, version |-> ""]

GoBinaryTarget(addr) ==
    [alias |-> "go_binary", address |-> addr, import_path |-> <<>>, subpath |-> <<>>,
     sources |-> <<>>, module_path |-> <<>>, version |-> ""]

has_field(tgt, field) ==
    CASE field = "GoImportPathField" ->
            tgt.alias \in {"go_first_party_package", "go_third_party_package"}
      [] field = "GoFirstPartyPackageSourcesField" ->
            tgt.alias = "go_first_party_package"
      [] field = "GoFirstPartyPackageSubpathField" ->
            tgt.alias = "go_first_party_package"
      [] OTHER -> FALSE

\* GoFirstPartyPackageSubpathField.full_dir_path
full_dir_path(tgt) == tgt.address.spec_path \o tgt.subpath

\* The file names of the model, in the order of their strings.
FileNames == <<"x.go", "y.go">>

NameRank(f) == CHOOSE i \in 1..Len(FileNames) : FileNames[i] = f

\* sorted(...) of paths that differ in their last component only.
RECURSIVE sorted(_)
sorted(paths) ==
    IF paths = {} THEN <<>>
    ELSE LET first == CHOOSE p \in paths :
                          \A q \in paths : NameRank(p[Len(p)]) <= NameRank(q[Len(q)])
         IN <<first>> \o sorted(paths \ {first})

\* Mutant: the directory is taken as the subpath, wherever the manifest is.
create_first_party_package_tgt_no_strip(generator_addr, go_mod_import_path, dir, filenames) ==
    [alias |-> "go_first_party_package",
     address |-> create_generated(generator_addr, <<".">> \o dir),
     import_path |-> IF dir # <<>> THEN go_mod_import_path \o dir ELSE go_mod_import_path,
     subpath |-> dir,
     sources |-> sorted({dir \o <<f>> : f \in filenames}),
     module_path |-> <<>>, version |-> ""]

\* Lines 227-252; filenames is dir_to_filenames[dir].
create_first_party_package_tgt(generator_addr, go_mod_import_path, dir, filenames) ==
    LET go_mod_spec_path == generator_addr.spec_path
        subpath == IF go_mod_spec_path = <<>> THEN dir
                   ELSE IF dir = go_mod_spec_path THEN <<>>
                   ELSE SubSeq(dir, Len(go_mod_spec_path) + 1, Len(dir))
        import_path == IF subpath # <<>> THEN go_mod_import_path \o subpath
                       ELSE go_mod_import_path
    IN [alias |-> "go_first_party_package",
        address |-> create_generated(generator_addr, <<".">> \o subpath),
        import_path |-> import_path, subpath |-> subpath,
        sources |-> sorted({subpath \o <<f>> : f \in filenames}),
        module_path |-> <<>>, version |-> ""]

create_third_party_package_tgt(generator_addr, pkg_info) ==
    [alias |-> "go_third_party_package",
     address |-> create_generated(generator_addr, pkg_info.import_path),
     import_path |-> pkg_info.import_path, subpath |-> <<>>, sources |-> <<>>,
     module_path |-> pkg_info.module_path, version |-> pkg_info.version]

----------------------------------------------------------------------------
(* The repositories the Go rules are run on: two module manifests, one at   *)
(* the root with import path m and one in directory a with import path     *)
(* m/a, the packages each may generate, and one binary per directory.      *)

RootDir == <<>>
DirA == <<"a">>

ModRoot == Address(RootDir, "mod")
ModA == Address(DirA, "mod")

\* GoModInfo.import_path of a manifest
go_mod_import_path(addr) == IF addr = ModRoot THEN <<"m">> ELSE <<"m", "a">>

FmtPkgInfo == [module_path |-> <<"fmt">>, version |-> "v1", import_path |-> <<"fmt">>]

GeneratedBy(mod) ==
    IF mod = ModRoot
    THEN {create_first_party_package_tgt(mod, go_mod_import_path(mod), RootDir, {"x.go"}),
          create_first_party_package_tgt(mod, go_mod_import_path(mod), DirA, {"x.go"}),
          create_third_party_package_tgt(mod, FmtPkgInfo)}
    ELSE {create_first_party_package_tgt(mod, go_mod_import_path(mod), DirA, {"x.go"}),
          create_third_party_package_tgt(mod, FmtPkgInfo)}

Binaries == {GoBinaryTarget(Address(RootDir, "bin")), GoBinaryTarget(Address(DirA, "bin"))}

\* The import paths of the standard library (GoStdLibImports).
std_lib_imports == {<<"fmt">>}

\* The import paths a package's source may name.
ImportPaths == {<<"fmt">>, <<"m">>, <<"m", "a">>}

\* Targets in address order: by directory, then target name, then generated name.
AddressKey(addr) ==
    <<Len(addr.spec_path),
      IF addr.target_name = "bin" THEN 0 ELSE 1,
      Len(addr.generated_name),
      IF addr.generated_name # <<>> /\ addr.generated_name[1] = "." THEN 0 ELSE 1>>

KeyLess(k1, k2) ==
    \E i \in 1..4 : k1[i] < k2[i] /\ \A j \in 1..(i - 1) : k1[j] = k2[j]

RECURSIVE SortTargets(_)
SortTargets(S) ==
    IF S = {} THEN <<>>
    ELSE LET first == CHOOSE t \in S :
                          \A u \in S \ {t} : KeyLess(AddressKey(t.address), AddressKey(u.address))
         IN <<first>> \o SortTargets(S \ {first})

Mods == {ModRoot, ModA}

\* Every repository: each manifest is declared or not, and a declared
\* manifest generates any subset of its packages (which exist depends on the
\* files and modules found).
Repositories ==
    {SortTargets(Binaries \cup UNION {{GoModTarget(m)} \cup gen[m] : m \in mods}) :
        mods \in SUBSET Mods,
        gen \in {g \in [Mods -> SUBSET UNION {GeneratedBy(m) : m \in Mods}] :
                    \A m \in Mods : g[m] \subseteq GeneratedBy(m)}}

----------------------------------------------------------------------------
(* Engine requests the rules consume.                                      *)

\* Get(OwningGoMod, OwningGoModRequest(address)): the manifest a generated
\* package belongs to.
OwningGoMod(addr) == [addr EXCEPT !.generated_name = <<>>]

\* Get(WrappedTarget, ...): the target at an address.
WrappedTarget(targets, addr) == CHOOSE t \in Range(targets) : t.address = addr

\* Get(Targets, AddressSpecs([AscendantAddresses(dir)])): the targets declared
\* in dir or in a directory above it.
AscendantAddresses(targets, dir) ==
    SelectSeq(targets, LAMBDA t : IsPrefix(t.address.spec_path, dir))

\* AddressInput.parse(value, relative_to=...): a reference and the address it
\* denotes. A relative reference (":name", "./sub:name") is joined to
\* relative_to, any other is taken from the build root.
AddressInput_parse(value, relative_to) ==
    [spec_path |-> IF value.relative THEN relative_to \o value.path ELSE value.path,
     target_name |-> value.target_name,
     generated_name |-> value.generated_name]

\* InferredDependencies(...) and InjectedDependencies(...) keep one
\* occurrence of each address.
RECURSIVE Deduplicated(_)
Deduplicated(s) ==
    IF s = <<>> THEN <<>>
    ELSE LET front == Deduplicated(SubSeq(s, 1, Len(s) - 1))
         IN IF s[Len(s)] \in Range(front) THEN front ELSE Append(front, s[Len(s)])

InferredDependencies(dependencies) == Deduplicated(dependencies)

InjectedDependencies(dependencies) == Deduplicated(dependencies)

----------------------------------------------------------------------------
(* map_import_paths_to_packages                                            *)

\* mapping.get(import_path, ()) and the defaultdict(list) lookup
mapping_get(mapping, import_path) ==
    IF import_path \in DOMAIN mapping THEN mapping[import_path] ELSE <<>>

RECURSIVE map_import_paths_loop(_, _, _)
map_import_paths_loop(targets, i, mapping) ==
    IF i > Len(targets) THEN mapping
    ELSE LET tgt == targets[i]
         IN IF ~has_field(tgt, "GoImportPathField")
            THEN map_import_paths_loop(targets, i + 1, mapping)
            ELSE LET import_path == tgt.import_path
                     bucket == Append(mapping_get(mapping, import_path), tgt.address)
                 IN map_import_paths_loop(targets, i + 1,
                        [p \in DOMAIN mapping \cup {import_path} |->
                            IF p = import_path THEN bucket ELSE mapping[p]])

map_import_paths_to_packages(targets) ==
    map_import_paths_loop(targets, 1, <<>>)

----------------------------------------------------------------------------
(* infer_go_dependencies and the two injection rules                       *)

Warning(import_path, candidate_packages) ==
    [level |-> "warning", import_path |-> import_path, addresses |-> candidate_packages]

Debug(import_path, addr) ==
    [level |-> "debug", import_path |-> import_path, addresses |-> <<addr>>]

\* Mutant: an ambiguous import path gets an edge to its first candidate.
infer_go_dependencies_import_first_candidate(import_path, mapping, addr, acc) ==
    IF import_path \in std_lib_imports THEN acc
    ELSE LET candidate_packages == mapping_get(mapping, import_path)
         IN IF Len(candidate_packages) >= 1
            THEN [acc EXCEPT !.inferred_dependencies = Append(@, candidate_packages[1])]
            ELSE [acc EXCEPT !.log = Append(@, Debug(import_path, addr))]

\* Mutant: the standard library is not skipped.
infer_go_dependencies_import_no_std_lib(import_path, mapping, addr, acc) ==
    LET candidate_packages == mapping_get(mapping, import_path)
    IN IF Len(candidate_packages) > 1
       THEN [acc EXCEPT !.log = Append(@, Warning(import_path, candidate_packages))]
       ELSE IF Len(candidate_packages) = 1
       THEN [acc EXCEPT !.inferred_dependencies = Append(@, candidate_packages[1])]
       ELSE [acc EXCEPT !.log = Append(@, Debug(import_path, addr))]

\* Mutant: a single candidate is logged and not added.
infer_go_dependencies_import_no_edge(import_path, mapping, addr, acc) ==
    IF import_path \in std_lib_imports THEN acc
    ELSE LET candidate_packages == mapping_get(mapping, import_path)
         IN IF Len(candidate_packages) > 1
            THEN [acc EXCEPT !.log = Append(@, Warning(import_path, candidate_packages))]
            ELSE [acc EXCEPT !.log = Append(@, Debug(import_path, addr))]

\* One turn of the loop of infer_go_dependencies; acc holds
\* inferred_dependencies and the log so far.
infer_go_dependencies_import(import_path, mapping, addr, acc) ==
    IF import_path \in std_lib_imports THEN acc
    ELSE LET candidate_packages == mapping_get(mapping, import_path)
         IN IF Len(candidate_packages) > 1
            THEN [acc EXCEPT !.log = Append(@, Warning(import_path, candidate_packages))]
            ELSE IF Len(candidate_packages) = 1
            THEN [acc EXCEPT !.inferred_dependencies = Append(@, candidate_packages[1])]
            ELSE [acc EXCEPT !.log = Append(@, Debug(import_path, addr))]

RECURSIVE infer_go_dependencies_loop(_, _, _, _, _)
infer_go_dependencies_loop(import_paths, i, mapping, addr, acc) ==
    IF i > Len(import_paths) THEN acc
    ELSE infer_go_dependencies_loop(import_paths, i + 1, mapping, addr,
             infer_go_dependencies_import(import_paths[i], mapping, addr, acc))

infer_go_dependencies(addr, pkg_info, mapping) ==
    LET done == infer_go_dependencies_loop(
                    pkg_info.imports \o pkg_info.test_imports \o pkg_info.xtest_imports,
                    1, mapping, addr,
                    [inferred_dependencies |-> <<>>, log |-> <<>>])
    IN [kind |-> "InferredDependencies",
        dependencies |-> InferredDependencies(done.inferred_dependencies),
        log |-> done.log]

\* Mutant: the owning go_mod is looked up and not returned.
inject_go_package_dependencies_nothing(addr) ==
    [kind |-> "InjectedDependencies", dependencies |-> InjectedDependencies(<<>>),
     log |-> <<>>]

inject_go_package_dependencies(addr) ==
    LET owning_go_mod == OwningGoMod(addr)
    IN [kind |-> "InjectedDependencies",
        dependencies |-> InjectedDependencies(<<owning_go_mod>>),
        log |-> <<>>]

\* One turn of the loop of inject_go_third_party_package_dependencies.
inject_go_third_party_package_dependencies_import(import_path, mapping, addr, acc) ==
    IF import_path \in std_lib_imports THEN acc
    ELSE LET candidate_packages == mapping_get(mapping, import_path)
         IN IF Len(candidate_packages) > 1
            THEN [acc EXCEPT !.log = Append(@, Warning(import_path, candidate_packages))]
            ELSE IF Len(candidate_packages) = 1
            THEN [acc EXCEPT !.inferred_dependencies = Append(@, candidate_packages[1])]
            ELSE [acc EXCEPT !.log = Append(@, Debug(import_path, addr))]

RECURSIVE inject_go_third_party_package_dependencies_loop(_, _, _, _, _)
inject_go_third_party_package_dependencies_loop(import_paths, i, mapping, addr, acc) ==
    IF i > Len(import_paths) THEN acc
    ELSE inject_go_third_party_package_dependencies_loop(import_paths, i + 1, mapping, addr,
             inject_go_third_party_package_dependencies_import(import_paths[i], mapping, addr, acc))

inject_go_third_party_package_dependencies(addr, pkg_info, mapping) ==
    LET done == inject_go_third_party_package_dependencies_loop(
                    pkg_info.imports, 1, mapping, addr,
                    [inferred_dependencies |-> <<>>, log |-> <<>>])
    IN [kind |-> "InjectedDependencies",
        dependencies |-> InjectedDependencies(done.inferred_dependencies),
        log |-> done.log]

----------------------------------------------------------------------------
(* determine_main_pkg_for_go_binary                                        *)

\* The `main` field left unset.
NoMain == [given |-> FALSE, relative |-> FALSE, path |-> <<>>,
           target_name |-> "", generated_name |-> <<>>]

\* Mutant: every first-party package the ascendant search returned is kept.
relevant_pkg_targets_any_dir(candidate_targets, addr) ==
    SelectSeq(candidate_targets,
              LAMBDA tgt : has_field(tgt, "GoFirstPartyPackageSubpathField"))

\* The first-party packages of the binary's directory among the targets the
\* ascendant search returned.
relevant_pkg_targets(candidate_targets, addr) ==
    SelectSeq(candidate_targets,
              LAMBDA tgt : /\ has_field(tgt, "GoFirstPartyPackageSubpathField")
                           /\ full_dir_path(tgt) = addr.spec_path)

Addresses(tgts) == [i \in 1..Len(tgts) |-> tgts[i].address]

main_pkg_from_field(field, targets) ==
    LET addr == field.address
        wrapped_specified_tgt ==
            WrappedTarget(targets, AddressInput_parse(field.value, addr.spec_path))
    IN IF ~has_field(wrapped_specified_tgt, "GoFirstPartyPackageSourcesField")
       THEN [kind |-> "InvalidFieldException",
             addresses |-> <<wrapped_specified_tgt.address>>,
             gets |-> <<"WrappedTarget(AddressInput)">>]
       ELSE [kind |-> "GoBinaryMainPackage",
             addresses |-> <<wrapped_specified_tgt.address>>,
             gets |-> <<"WrappedTarget(AddressInput)">>]

main_pkg_from_directory(field, targets) ==
    LET addr == field.address
        candidate_targets == AscendantAddresses(targets, addr.spec_path)
        relevant == relevant_pkg_targets(candidate_targets, addr)
    IN IF Len(relevant) = 1
       THEN [kind |-> "GoBinaryMainPackage",
             addresses |-> <<relevant[1].address>>,
             gets |-> <<"Targets(AscendantAddresses)">>]
       ELSE IF Len(relevant) = 0
       THEN [kind |-> "ResolveError(none were found)",
             addresses |-> <<>>,
             gets |-> <<"Targets(AscendantAddresses)", "WrappedTarget(Address)">>]
       ELSE [kind |-> "ResolveError(multiple)",
             addresses |-> Addresses(relevant),
             gets |-> <<"Targets(AscendantAddresses)", "WrappedTarget(Address)">>]

\* Mutant: the `main` field is not read.
determine_main_pkg_for_go_binary_ignoring_main(field, targets) ==
    main_pkg_from_directory(field, targets)

determine_main_pkg_for_go_binary(field, targets) ==
    IF field.value.given
    THEN main_pkg_from_field(field, targets)
    ELSE main_pkg_from_directory(field, targets)

----------------------------------------------------------------------------
(* The Go rules as actions: the engine runs a rule on a request and the     *)
(* state keeps the request, what the rule returned or raised, and its log. *)
(* A rule is a function of its request and of the repository, so a         *)
(* behaviour runs one request; the behaviours together run every request.  *)

\* The state of the resources rule while only the Go rules run.
JvmIdle ==
    /\ component = <<>>
    /\ pc = <<>>
    /\ fallibles = <<>>
    /\ direct_dependency_classpath_entries = <<>>
    /\ cpe = <<>>
    /\ entry = <<>>
    /\ error = <<>>
    /\ calls = <<>>

\* The state of target generation while other rules run.
GenIdle ==
    /\ generator = Address(<<>>, "")
    /\ engine = <<>>
    /\ gen_pc = "idle"
    /\ completions = <<>>
    /\ generated_targets = <<>>
    /\ invocations = <<>>

NoIndex == [built |-> FALSE, mapping |-> <<>>]

GoInit ==
    /\ all_targets \in Repositories
    /\ package_mapping = NoIndex
    /\ rule = "none"
    /\ request = [address |-> Address(<<>>, "")]
    /\ result = [kind |-> "none", dependencies |-> <<>>, log |-> <<>>]
    /\ log = <<>>
    /\ JvmIdle
    /\ GenIdle

TargetsWith(alias) == {t \in Range(all_targets) : t.alias = alias}

\* The references a `main` field may hold: the target t, written from the
\* build root or relative to the binary's directory.
MainValues(addr) ==
    {NoMain} \cup
    {[given |-> TRUE, relative |-> FALSE, path |-> t.address.spec_path,
      target_name |-> t.address.target_name,
      generated_name |-> t.address.generated_name] : t \in Range(all_targets)} \cup
    {[given |-> TRUE, relative |-> TRUE,
      path |-> SubSeq(t.address.spec_path, Len(addr.spec_path) + 1,
                      Len(t.address.spec_path)),
      target_name |-> t.address.target_name,
      generated_name |-> t.address.generated_name] :
        t \in {u \in Range(all_targets) : IsPrefix(addr.spec_path, u.address.spec_path)}}

MapImportPathsToPackages ==
    /\ ~package_mapping.built
    /\ package_mapping' = [built |-> TRUE,
                           mapping |-> map_import_paths_to_packages(all_targets)]
    /\ UNCHANGED <<all_targets, rule, request, result, log, jvm_vars, gen_vars>>

InferGoDependencies ==
    /\ rule = "none"
    /\ package_mapping.built
    /\ \E tgt \in TargetsWith("go_first_party_package") :
       \E imports \in SeqsUpTo(ImportPaths, MaxImports),
          test_imports \in SeqsUpTo(ImportPaths, MaxImports),
          xtest_imports \in SeqsUpTo(ImportPaths, MaxImports) :
            LET pkg_info == [imports |-> imports, test_imports |-> test_imports,
                             xtest_imports |-> xtest_imports]
                out == infer_go_dependencies(tgt.address, pkg_info,
                                             package_mapping.mapping)
            IN /\ rule' = "infer_go_dependencies"
               /\ request' = [address |-> tgt.address, pkg_info |-> pkg_info]
               /\ result' = out
               /\ log' = out.log
    /\ UNCHANGED <<all_targets, package_mapping, jvm_vars, gen_vars>>

InjectGoPackageDependencies ==
    /\ rule = "none"
    /\ \E tgt \in TargetsWith("go_first_party_package") :
            LET out == inject_go_package_dependencies(tgt.address)
            IN /\ rule' = "inject_go_package_dependencies"
               /\ request' = [address |-> tgt.address]
               /\ result' = out
               /\ log' = out.log
    /\ UNCHANGED <<all_targets, package_mapping, jvm_vars, gen_vars>>

InjectGoThirdPartyPackageDependencies ==
    /\ rule = "none"
    /\ package_mapping.built
    /\ \E tgt \in TargetsWith("go_third_party_package") :
       \E imports \in SeqsUpTo(ImportPaths, MaxImports + 1) :
            LET pkg_info == [imports |-> imports]
                out == inject_go_third_party_package_dependencies(
                           tgt.address, pkg_info, package_mapping.mapping)
            IN /\ rule' = "inject_go_third_party_package_dependencies"
               /\ request' = [address |-> tgt.address, pkg_info |-> pkg_info]
               /\ result' = out
               /\ log' = out.log
    /\ UNCHANGED <<all_targets, package_mapping, jvm_vars, gen_vars>>

DetermineMainPkgForGoBinary ==
    /\ rule = "none"
    /\ \E tgt \in TargetsWith("go_binary") :
       \E value \in MainValues(tgt.address) :
            LET field == [address |-> tgt.address, value |-> value]
                out == determine_main_pkg_for_go_binary(field, all_targets)
            IN /\ rule' = "determine_main_pkg_for_go_binary"
               /\ request' = field
               /\ result' = out
               /\ log' = <<>>
    /\ UNCHANGED <<all_targets, package_mapping, jvm_vars, gen_vars>>

GoNext ==
    \/ MapImportPathsToPackages
    \/ InferGoDependencies
    \/ InjectGoPackageDependencies
    \/ InjectGoThirdPartyPackageDependencies
    \/ DetermineMainPkgForGoBinary

GoSpec == GoInit /\ [][GoNext]_vars

----------------------------------------------------------------------------
(* Properties of the Go rules.                                             *)

RequestedImports ==
    IF rule = "infer_go_dependencies"
    THEN request.pkg_info.imports \o request.pkg_info.test_imports
            \o request.pkg_info.xtest_imports
    ELSE IF rule = "inject_go_third_party_package_dependencies"
    THEN request.pkg_info.imports
    ELSE <<>>

\* The candidates of an import path, read off the targets themselves.
CandidatesOf(import_path) ==
    {t.address : t \in {u \in Range(all_targets) :
        /\ u.alias \in {"go_first_party_package", "go_third_party_package"}
        /\ u.import_path = import_path}}

WarnedImports == {log[i].import_path : i \in {j \in 1..Len(log) : log[j].level = "warning"}}

\* The first-party packages whose directory is the binary's own.
PackagesAtBinaryDir ==
    {t \in Range(all_targets) :
        /\ t.alias = "go_first_party_package"
        /\ t.address.spec_path \o t.subpath = request.address.spec_path}

\* C3: with no `main` override, one first-party package at the binary's
\* directory is returned, none raises the "none were found" ResolveError, and
\* two or more raise the ambiguity ResolveError listing all their addresses.
C3_MainPkgByDirectory ==
    (rule = "determine_main_pkg_for_go_binary" /\ ~request.value.given) =>
        LET n == Cardinality(PackagesAtBinaryDir)
        IN /\ n = 1 => /\ result.kind = "GoBinaryMainPackage"
                       /\ Range(result.addresses) = {t.address : t \in PackagesAtBinaryDir}
                       /\ Len(result.addresses) = 1
           /\ n = 0 => result.kind = "ResolveError(none were found)"
           /\ n >= 2 => /\ result.kind = "ResolveError(multiple)"
                        /\ Range(result.addresses) = {t.address : t \in PackagesAtBinaryDir}

C3_Witness ==
    /\ rule = "determine_main_pkg_for_go_binary"
    /\ ~request.value.given
    /\ Cardinality(PackagesAtBinaryDir) = 2
    /\ result.kind = "ResolveError(multiple)"
    /\ Len(result.addresses) = 2

\* C4 as claimed: the result of either injection rule, for a first-party or a
\* third-party package, contains the address of the owning go_mod target.
C4_InjectedOwningGoModBoth ==
    rule \in {"inject_go_package_dependencies",
              "inject_go_third_party_package_dependencies"} =>
        OwningGoMod(request.address) \in Range(result.dependencies)

\* C4 amended: the rule for a first-party package returns exactly the address
\* of its owning go_mod target, whatever the index holds; the rule for a
\* third-party package returns the packages its imports resolve to and never
\* a go_mod target.
C4_InjectedOwningGoModFirstParty ==
    /\ rule = "inject_go_package_dependencies" =>
          /\ result.kind = "InjectedDependencies"
          /\ result.dependencies = <<[request.address EXCEPT !.generated_name = <<>>]>>
          /\ \E t \in Range(all_targets) :
                t.alias = "go_mod" /\ t.address = result.dependencies[1]
    /\ rule = "inject_go_third_party_package_dependencies" =>
          /\ result.kind = "InjectedDependencies"
          /\ \A d \in Range(result.dependencies) :
                \E ip \in Range(RequestedImports) : CandidatesOf(ip) = {d}
          /\ \A t \in Range(all_targets) :
                t.alias = "go_mod" => t.address \notin Range(result.dependencies)

C4_Witness ==
    /\ rule = "inject_go_package_dependencies"
    /\ package_mapping.built
    /\ \E ip \in DOMAIN package_mapping.mapping : Len(package_mapping.mapping[ip]) > 1
    /\ Len(result.dependencies) = 1

\* What C5 says of one import path of the request.
AmbiguousImportSkipped(ip) ==
    /\ ip \in WarnedImports
    /\ \A c \in CandidatesOf(ip) : c \notin Range(result.dependencies)
    /\ result.kind = "InferredDependencies"
    /\ result.dependencies =
          infer_go_dependencies(
              request.address,
              [imports |-> SelectSeq(request.pkg_info.imports, LAMBDA p : p # ip),
               test_imports |-> SelectSeq(request.pkg_info.test_imports, LAMBDA p : p # ip),
               xtest_imports |-> SelectSeq(request.pkg_info.xtest_imports, LAMBDA p : p # ip)],
              package_mapping.mapping).dependencies

\* C5 as claimed: every import path of the request with more than one
\* candidate is warned about, gets no edge, and leaves the other edges alone.
C5_AmbiguousWarnedAlways ==
    rule = "infer_go_dependencies" =>
        \A ip \in Range(RequestedImports) :
            Cardinality(CandidatesOf(ip)) > 1 => AmbiguousImportSkipped(ip)

\* C5 amended: every import path of the request that is not of the standard
\* library and has more than one candidate is warned about, gets no edge to
\* any candidate, and the result is the one the request without that import
\* path gets; a standard-library import path is skipped without a warning.
C5_AmbiguousWarnedUnlessStdLib ==
    rule = "infer_go_dependencies" =>
        /\ \A ip \in Range(RequestedImports) \ std_lib_imports :
              Cardinality(CandidatesOf(ip)) > 1 => AmbiguousImportSkipped(ip)
        /\ \A ip \in Range(RequestedImports) \cap std_lib_imports :
              ip \notin WarnedImports

C5_Witness ==
    /\ rule = "infer_go_dependencies"
    /\ \E ip \in Range(RequestedImports) \ std_lib_imports :
          /\ Cardinality(CandidatesOf(ip)) > 1
          /\ ip \in WarnedImports
    /\ Len(result.dependencies) = 1

\* C6: neither rule returns the address of a package whose import path is of
\* the standard library, also when exactly one package claims that path.
C6_NoStdLibEdge ==
    rule \in {"infer_go_dependencies", "inject_go_third_party_package_dependencies"} =>
        \A ip \in std_lib_imports :
            \A c \in CandidatesOf(ip) : c \notin Range(result.dependencies)

C6_Witness ==
    /\ rule = "infer_go_dependencies"
    /\ \E ip \in Range(RequestedImports) \cap std_lib_imports :
          Cardinality(CandidatesOf(ip)) = 1
    /\ Len(result.dependencies) = 1

\* C7: every import path of the request that is not of the standard library
\* and has exactly one candidate gets that candidate in the result exactly
\* once, however often the path is listed, and the result holds nothing else.
C7_OneEdgePerUniqueImport ==
    rule = "infer_go_dependencies" =>
        /\ \A ip \in Range(RequestedImports) \ std_lib_imports :
              \A c \in CandidatesOf(ip) :
                  Cardinality(CandidatesOf(ip)) = 1 => Count(result.dependencies, c) = 1
        /\ \A d \in Range(result.dependencies) :
              \E ip \in Range(RequestedImports) \ std_lib_imports : CandidatesOf(ip) = {d}

C7_Witness ==
    /\ rule = "infer_go_dependencies"
    /\ \E ip \in Range(RequestedImports) \ std_lib_imports :
          /\ Cardinality(CandidatesOf(ip)) = 1
          /\ Count(RequestedImports, ip) >= 2
          /\ \A c \in CandidatesOf(ip) : Count(result.dependencies, c) = 1

\* The address a `main` reference denotes, seen from the binary's directory.
ReferencedAddress ==
    [spec_path |-> IF request.value.relative
                   THEN request.address.spec_path \o request.value.path
                   ELSE request.value.path,
     target_name |-> request.value.target_name,
     generated_name |-> request.value.generated_name]

\* C8: with a `main` override, the referenced target's address is returned
\* when it is a first-party package and InvalidFieldException is raised
\* otherwise, and no ascendant search is made.
C8_MainPkgByOverride ==
    (rule = "determine_main_pkg_for_go_binary" /\ request.value.given) =>
        /\ \A t \in Range(all_targets) :
              t.address = ReferencedAddress =>
                  /\ result.kind = IF t.alias = "go_first_party_package"
                                   THEN "GoBinaryMainPackage"
                                   ELSE "InvalidFieldException"
                  /\ result.addresses = <<t.address>>
        /\ "Targets(AscendantAddresses)" \notin Range(result.gets)

C8_Witness ==
    /\ rule = "determine_main_pkg_for_go_binary"
    /\ request.value.given
    /\ Cardinality(PackagesAtBinaryDir) = 2
    /\ result.kind = "GoBinaryMainPackage"
    /\ \A t \in PackagesAtBinaryDir : t.address # result.addresses[1]

----------------------------------------------------------------------------
(* assemble_resources_jar: the units of a build and their classpath        *)
(* entries. Unit u may name only units below u, so the graph is acyclic.   *)

\* The number of units of a build.
NumUnits == 3

\* The longest list of direct dependencies of a unit.
MaxDependencies == 2

Units == 1..NumUnits

CompileResult == {"SUCCEEDED", "FAILED", "DEPENDENCY_FAILED"}

\* Sequences over S without repetition, of length n at most.
DistinctSeqs(S, n) ==
    {q \in SeqsUpTo(S, n) : \A i, j \in 1..Len(q) : i # j => q[i] # q[j]}

\* A unit whose classpath entry another rule makes (a compiled unit of some
\* language).
OtherComponents ==
    {[kind |-> "other", prerequisite |-> 0, dependencies |-> <<>>, generated |-> {}]}

\* A resources unit over the units of graph g: an optional prerequisite
\* (0: none; a unit built before this one that is not one of its declared
\* dependencies), its direct dependencies in declaration order, and those
\* of them that the unit itself generated. A generated dependency is a
\* resources unit with the dependencies of its generator.
ResourcesComponents(g) ==
    {c \in [kind : {"resources"}, prerequisite : 0..Len(g),
            dependencies : DistinctSeqs(1..Len(g), MaxDependencies),
            generated : SUBSET (1..Len(g))] :
        /\ c.generated \subseteq Range(c.dependencies)
        /\ c.prerequisite \notin Range(c.dependencies)
        /\ \A x \in c.generated :
              /\ g[x].kind = "resources"
              /\ g[x].prerequisite = 0
              /\ g[x].generated = {}
              /\ g[x].dependencies =
                    SelectSeq(c.dependencies, LAMBDA d : d \notin c.generated)}

RECURSIVE Graphs(_)
Graphs(n) ==
    IF n = 0 THEN {<<>>}
    ELSE UNION {{Append(g, c) : c \in OtherComponents \cup ResourcesComponents(g)} :
                    g \in Graphs(n - 1)}

\* The builds of NumUnits units in which every unit but the last is named by
\* another (a build with a unit nobody names is a smaller build and a unit
\* beside it).
Builds ==
    {g \in Graphs(NumUnits) :
        \A u \in 1..(NumUnits - 1) :
            \E p \in 1..NumUnits :
                u \in Range(g[p].dependencies) \cup {g[p].prerequisite}}

\* ClasspathEntry(digest, filenames, dependencies); a digest is the set of
\* the units whose files it holds.
ClasspathEntry(digest, filenames, dependencies) ==
    [digest |-> digest, filenames |-> filenames, dependencies |-> dependencies]

\* FallibleClasspathEntry(description, result, output, exit_code); output is
\* <<>> for None and <<entry>> otherwise.
FallibleClasspathEntry(description, res, output, exit_code) ==
    [description |-> description, result |-> res, output |-> output,
     exit_code |-> exit_code]

\* No value returned (yet).
NoEntry == FallibleClasspathEntry(0, "none", <<>>, 0)

\* The result of a unit of kind "other" whose rule returns `given`.
OtherEntry(u, given) ==
    IF given = "SUCCEEDED"
    THEN FallibleClasspathEntry(u, "SUCCEEDED", <<ClasspathEntry({u}, <<u>>, <<>>)>>, 0)
    ELSE FallibleClasspathEntry(u, given, <<>>, 1)

\* Line 51: the prerequisite as a list of zero or one requests.
optional_prereq_request(req) ==
    IF req.prerequisite # 0 THEN <<req.prerequisite>> ELSE <<>>

\* ClasspathDependenciesRequest(request, ignore_generated=True): the direct
\* dependencies without those the unit generated.
ClasspathDependenciesRequest(req) ==
    SelectSeq(req.dependencies, LAMBDA d : d \notin req.generated)

\* The units whose entries the MultiGet of lines 52-55 asks for.
Requested(req) == optional_prereq_request(req) \o ClasspathDependenciesRequest(req)

\* Mutant: only the direct dependencies are looked at.
chain_dependencies_only(fs) == fs[2]

\* Line 57: itertools.chain(*fallibles)
chain(fs) == fs[1] \o fs[2]

\* FallibleClasspathEntries.if_all_succeeded(): None (here <<"None">>) unless
\* every result is SUCCEEDED, and the entries otherwise.
all_succeeded(fs) == \A i \in 1..Len(fs) : fs[i].result = "SUCCEEDED" /\ fs[i].output # <<>>

if_all_succeeded(fs) ==
    IF all_succeeded(fs) THEN [i \in 1..Len(fs) |-> fs[i].output[1]] ELSE <<>>

\* Get(Digest, MergeDigests(...)): the union of the digests.
MergeDigests(digests) == UNION Range(digests)

RECURSIVE Flatten(_)
Flatten(ss) == IF ss = <<>> THEN <<>> ELSE Head(ss) \o Flatten(Tail(ss))

\* ClasspathEntry.merge(digest, entries)
ClasspathEntry_merge(digest, entries) ==
    ClasspathEntry(digest,
                   Flatten([i \in 1..Len(entries) |-> entries[i].filenames]),
                   Flatten([i \in 1..Len(entries) |-> entries[i].dependencies]))

\* Mutant: the short circuit reports FAILED.
dependency_failed_as_failed(u) ==
    FallibleClasspathEntry(u, "FAILED", <<>>, 1)

\* Lines 61-66: the entry returned when a dependency did not succeed.
dependency_failed(u) ==
    FallibleClasspathEntry(u, "DEPENDENCY_FAILED", <<>>, 1)

\* Lines 73-74: the name of the unit's jar.
output_filename(u) == u

\* Line 92: the entry of the unit's own jar.
own_cpe(u) == ClasspathEntry({u}, <<output_filename(u)>>, <<>>)

\* Mutant: the unit's own entry is merged last.
merge_entries_own_last(own, upstream) == upstream \o <<own>>

\* Lines 96 and 100: the entries merged, the unit's own first.
merge_entries(own, upstream) == <<own>> \o upstream

\* Lines 94-103: the entry returned after packaging.
succeeded(u, own, upstream) ==
    LET entries == merge_entries(own, upstream)
        merged_cpe_digest ==
            MergeDigests([i \in 1..Len(entries) |-> entries[i].digest])
        merged_cpe == ClasspathEntry_merge(merged_cpe_digest, entries)
    IN FallibleClasspathEntry(output_filename(u), "SUCCEEDED", <<merged_cpe>>, 0)

\* Mutant: a failed jar process is reported as DEPENDENCY_FAILED.
process_failed_absorbed(u) ==
    [pc |-> "returned", entry |-> dependency_failed(u), error |-> 0]

\* Lines 77-90: Get(ProcessResult, ...) raises when the process fails and the
\* rule does not catch it.
process_failed(u) ==
    [pc |-> "raised", entry |-> NoEntry, error |-> u]

----------------------------------------------------------------------------
(* The rule as actions: one per request whose outcome other rules or the   *)
(* environment decide (the MultiGet of the upstream entries, the jar        *)
(* process).                                                               *)

\* The state of the Go rules above while they do not run.
GoIdleTargets ==
    /\ all_targets = <<>>
    /\ package_mapping = NoIndex
    /\ rule = "none"
    /\ request = [address |-> Address(<<>>, "")]
    /\ result = [kind |-> "none", dependencies |-> <<>>, log |-> <<>>]
    /\ log = <<>>

GoIdle == GoIdleTargets /\ GenIdle

JvmInit ==
    /\ component \in Builds
    /\ pc = [u \in Units |-> "idle"]
    /\ fallibles = [u \in Units |-> <<>>]
    /\ direct_dependency_classpath_entries = [u \in Units |-> <<>>]
    /\ cpe = [u \in Units |-> <<>>]
    /\ entry = [u \in Units |-> NoEntry]
    /\ error = [u \in Units |-> 0]
    /\ calls = [u \in Units |-> <<>>]
    /\ GoIdle

\* The engine runs the request of a unit that the build asks for itself (no
\* unit requests it) or that a started rule has requested.
Demanded(u) ==
    \/ \A p \in Units : u \notin Range(Requested(component[p]))
    \/ \E p \in Units : pc[p] # "idle" /\ u \in Range(Requested(component[p]))

\* The classpath entry of a unit of another kind.
OtherClasspathEntry(u) ==
    /\ component[u].kind = "other"
    /\ pc[u] = "idle"
    /\ Demanded(u)
    /\ pc' = [pc EXCEPT ![u] = "returned"]
    /\ \E given \in CompileResult :
          entry' = [entry EXCEPT ![u] = OtherEntry(u, given)]
    /\ UNCHANGED <<component, fallibles, direct_dependency_classpath_entries, cpe,
                   error, calls, go_vars, gen_vars>>

\* Lines 51-55: the rule starts and awaits its MultiGet.
AssembleResourcesJar(u) ==
    /\ component[u].kind = "resources"
    /\ pc[u] = "idle"
    /\ Demanded(u)
    /\ pc' = [pc EXCEPT ![u] = "multiget"]
    /\ calls' = [calls EXCEPT ![u] = Append(@, "MultiGet(FallibleClasspathEntries)")]
    /\ UNCHANGED <<component, fallibles, direct_dependency_classpath_entries, cpe,
                   entry, error, go_vars, gen_vars>>

\* Lines 52-90: every requested entry has been returned; the rule returns
\* DEPENDENCY_FAILED, or gathers its source files and requests the jar
\* process. (The source files are a request that only this rule sees: it and
\* the request of the process are one step.)
MultiGetReturns(u) ==
    /\ pc[u] = "multiget"
    /\ \A v \in Range(Requested(component[u])) : pc[v] = "returned"
    /\ LET got == <<[i \in 1..Len(optional_prereq_request(component[u])) |->
                        entry[optional_prereq_request(component[u])[i]]],
                    [i \in 1..Len(ClasspathDependenciesRequest(component[u])) |->
                        entry[ClasspathDependenciesRequest(component[u])[i]]]>>
       IN /\ fallibles' = [fallibles EXCEPT ![u] = got]
          /\ IF ~all_succeeded(chain(got))
             THEN /\ entry' = [entry EXCEPT ![u] = dependency_failed(u)]
                  /\ pc' = [pc EXCEPT ![u] = "returned"]
                  /\ UNCHANGED <<direct_dependency_classpath_entries, calls>>
             ELSE /\ direct_dependency_classpath_entries' =
                        [direct_dependency_classpath_entries EXCEPT
                            ![u] = if_all_succeeded(chain(got))]
                  /\ pc' = [pc EXCEPT ![u] = "process"]
                  /\ calls' = [calls EXCEPT
                        ![u] = @ \o <<"StrippedSourceFiles", "ProcessResult">>]
                  /\ UNCHANGED entry
    /\ UNCHANGED <<component, cpe, error, go_vars, gen_vars>>

\* Lines 52-55: a requested rule raised, and so does the MultiGet.
MultiGetRaises(u) ==
    /\ pc[u] = "multiget"
    /\ \E v \in Range(Requested(component[u])) :
          /\ pc[v] = "raised"
          /\ error' = [error EXCEPT ![u] = error[v]]
    /\ pc' = [pc EXCEPT ![u] = "raised"]
    /\ UNCHANGED <<component, fallibles, direct_dependency_classpath_entries, cpe,
                   entry, calls, go_vars, gen_vars>>

\* Lines 77-103: the jar is made, the digests are merged and the merged
\* entry is returned. (Merging digests is a request that only this rule
\* sees and that returns: it and the return are one step.)
ProcessSucceeds(u) ==
    /\ pc[u] = "process"
    /\ cpe' = [cpe EXCEPT ![u] = <<own_cpe(u)>>]
    /\ calls' = [calls EXCEPT ![u] = Append(@, "Digest(MergeDigests)")]
    /\ entry' = [entry EXCEPT ![u] =
                    succeeded(u, own_cpe(u), direct_dependency_classpath_entries[u])]
    /\ pc' = [pc EXCEPT ![u] = "returned"]
    /\ UNCHANGED <<component, fallibles, direct_dependency_classpath_entries,
                   error, go_vars, gen_vars>>

\* Lines 77-90: the jar process fails.
ProcessFails(u) ==
    /\ pc[u] = "process"
    /\ pc' = [pc EXCEPT ![u] = process_failed(u).pc]
    /\ entry' = [entry EXCEPT ![u] = process_failed(u).entry]
    /\ error' = [error EXCEPT ![u] = process_failed(u).error]
    /\ UNCHANGED <<component, fallibles, direct_dependency_classpath_entries, cpe,
                   calls, go_vars, gen_vars>>

JvmNext ==
    \E u \in Units :
        \/ OtherClasspathEntry(u)
        \/ AssembleResourcesJar(u)
        \/ MultiGetReturns(u)
        \/ MultiGetRaises(u)
        \/ ProcessSucceeds(u)
        \/ ProcessFails(u)

JvmSpec == JvmInit /\ [][JvmNext]_vars

\* The engine runs every requested rule until it returns or raises.
JvmFairSpec == JvmSpec /\ WF_vars(JvmNext)

----------------------------------------------------------------------------
(* Properties of assemble_resources_jar.                                   *)

Resources == {u \in Units : component[u].kind = "resources"}

\* The prerequisite, if any, then the direct dependencies the unit did not
\* generate, in declaration order.
Upstream(u) ==
    LET c == component[u]
        deps == SelectSeq(c.dependencies, LAMBDA d : d \notin c.generated)
    IN IF c.prerequisite # 0 THEN <<c.prerequisite>> \o deps ELSE deps

UpstreamReturned(u) == \A v \in Range(Upstream(u)) : pc[v] = "returned"

UpstreamSucceeded(u) ==
    \A v \in Range(Upstream(u)) : pc[v] = "returned" /\ entry[v].result = "SUCCEEDED"

Failed(v) == pc[v] = "returned" /\ entry[v].result \in {"FAILED", "DEPENDENCY_FAILED"}

Ended(u) == pc[u] \in {"returned", "raised"}

\* The units u reaches through prerequisite and direct-dependency edges.
RECURSIVE Reached(_)
Reached(u) ==
    LET direct == (Range(component[u].dependencies) \cup {component[u].prerequisite}) \ {0}
    IN direct \cup UNION {Reached(v) : v \in direct}

\* C1: once the prerequisite and the direct dependencies that are not
\* generated have returned and one of their results is not SUCCEEDED, the
\* rule requests neither the source files nor the jar process, and what it
\* returns is DEPENDENCY_FAILED with no entry and a non-zero exit code.
C1_DependencyFailedShortCircuit ==
    \A u \in Resources :
        (UpstreamReturned(u) /\ \E v \in Range(Upstream(u)) : entry[v].result # "SUCCEEDED") =>
            /\ "StrippedSourceFiles" \notin Range(calls[u])
            /\ "ProcessResult" \notin Range(calls[u])
            /\ pc[u] \in {"idle", "multiget", "returned"}
            /\ pc[u] = "returned" =>
                  /\ entry[u].result = "DEPENDENCY_FAILED"
                  /\ entry[u].output = <<>>
                  /\ entry[u].exit_code # 0

C1_Witness ==
    \E u \in Resources :
        /\ component[u].prerequisite # 0
        /\ component[u].dependencies # <<>>
        /\ entry[component[u].prerequisite].result = "FAILED"
        /\ \A d \in Range(component[u].dependencies) : entry[d].result = "SUCCEEDED"
        /\ pc[u] = "returned"
        /\ entry[u].result = "DEPENDENCY_FAILED"

\* C2 as claimed: a unit that has ended and reaches a unit whose result is
\* FAILED or DEPENDENCY_FAILED has returned DEPENDENCY_FAILED (it has not
\* raised and has not returned SUCCEEDED).
C2_FailureAlwaysReturned ==
    \A u \in Units :
        (Ended(u) /\ \E v \in Reached(u) : Failed(v)) =>
            pc[u] = "returned" /\ entry[u].result = "DEPENDENCY_FAILED"

\* What a unit that reaches a failed unit ends in: DEPENDENCY_FAILED as a
\* returned value, or the error of a jar process that failed in a unit it
\* reaches.
FailureReturnedOrRaised(u) ==
    (Ended(u) /\ \E v \in Reached(u) : Failed(v)) =>
        \/ /\ pc[u] = "returned"
           /\ entry[u].result = "DEPENDENCY_FAILED"
        \/ /\ pc[u] = "raised"
           /\ error[u] \in Reached(u)
           /\ pc[error[u]] = "raised"
           /\ error[error[u]] = error[u]
           /\ entry[u].result = "none"

\* C2 amended: a unit that reaches a unit whose result is FAILED or
\* DEPENDENCY_FAILED ends with DEPENDENCY_FAILED as a returned value, or, when
\* the jar process of a unit it reaches failed, in that raised error, and
\* never in SUCCEEDED; and it does end: while it has not, a rule of the build
\* can take a step (every step moves one rule forward, so under the engine's
\* fairness the steps run out only when every rule has ended).
C2_FailurePropagates ==
    \A u \in Units :
        /\ FailureReturnedOrRaised(u)
        /\ ((\E v \in Reached(u) : Failed(v)) /\ ~Ended(u)) => ENABLED JvmNext

C2_Witness ==
    \E u \in Resources :
        /\ pc[u] = "returned"
        /\ entry[u].result = "DEPENDENCY_FAILED"
        /\ \E v \in Range(Upstream(u)) \cap Resources :
              /\ entry[v].result = "DEPENDENCY_FAILED"
              /\ \E w \in Range(Upstream(v)) : entry[w].result = "FAILED"

\* C9: when the prerequisite and the direct dependencies that are not
\* generated have all returned SUCCEEDED, what the rule returns is SUCCEEDED
\* with exit code 0 and one entry: its digest the union of the digest of the
\* unit's jar and the upstream digests, its files the unit's jar and then the
\* upstream files, prerequisite first and dependencies in declaration order;
\* and the entries merged are the unit's own and then the upstream ones.
C9_SucceededMerged ==
    \A u \in Resources :
        (UpstreamSucceeded(u) /\ pc[u] = "returned") =>
            LET up == Upstream(u)
                outs == [i \in 1..Len(up) |-> entry[up[i]].output[1]]
            IN /\ entry[u].result = "SUCCEEDED"
               /\ entry[u].exit_code = 0
               /\ Len(entry[u].output) = 1
               /\ entry[u].output[1].digest = {u} \cup UNION {outs[i].digest : i \in 1..Len(up)}
               /\ entry[u].output[1].filenames =
                     <<u>> \o Flatten([i \in 1..Len(up) |-> outs[i].filenames])
               /\ cpe[u] = <<[digest |-> {u}, filenames |-> <<u>>, dependencies |-> <<>>]>>
               /\ direct_dependency_classpath_entries[u] = outs

C9_Witness ==
    \E u \in Resources :
        /\ pc[u] = "returned"
        /\ entry[u].result = "SUCCEEDED"
        /\ component[u].prerequisite # 0
        /\ component[u].generated = {}
        /\ Len(component[u].dependencies) >= 1
        /\ component[u].prerequisite > component[u].dependencies[1]
        /\ Len(entry[u].output[1].filenames) >= 3

\* C10: a rule whose jar process failed has raised and has returned no
\* entry, and its upstream results were all SUCCEEDED; a rule that raised has
\* returned nothing; and a returned DEPENDENCY_FAILED comes with an upstream
\* result that is not SUCCEEDED.
C10_PackagingFailureRaises ==
    \A u \in Resources :
        /\ error[u] = u => /\ pc[u] = "raised"
                           /\ UpstreamSucceeded(u)
                           /\ "ProcessResult" \in Range(calls[u])
        /\ pc[u] = "raised" => entry[u].result = "none"
        /\ ("ProcessResult" \in Range(calls[u]) /\ pc[u] = "returned") =>
              entry[u].result = "SUCCEEDED"
        /\ (pc[u] = "returned" /\ entry[u].result = "DEPENDENCY_FAILED") =>
              \E v \in Range(Upstream(u)) : entry[v].result \in {"FAILED", "DEPENDENCY_FAILED"}

C10_Witness ==
    \E u \in Resources :
        /\ error[u] = u
        /\ pc[u] = "raised"
        /\ Len(Upstream(u)) >= 2

----------------------------------------------------------------------------
(* generate_targets_from_go_mod: one manifest, what the engine answers to   *)
(* the requests of the rule, and the rule invoked NumInvocations times, one *)
(* invocation after the other, with the same answers.                      *)

\* The most files the globs of a manifest match.
MaxFiles == 2

\* The most module descriptors of a manifest.
MaxModules == 2

\* The number of times the rule is invoked on the same inputs.
NumInvocations == 2

\* The directories under a manifest: its own, and pkg/sub below it.
GenDirs(addr) == {addr.spec_path, addr.spec_path \o <<"pkg", "sub">>}

\* Paths.files: the matched files, each the directory it is in and its name.
GoPaths(addr) ==
    DistinctSeqs([dir : GenDirs(addr), name : Range(FileNames)], MaxFiles)

\* go_mod_info.modules: module x, module x/y nested in it, and module z.
ModuleDescriptors ==
    {[path |-> <<"x">>, version |-> "v1"],
     [path |-> <<"x", "y">>, version |-> "v1"],
     [path |-> <<"z">>, version |-> "v1"]}

\* The import paths of the packages a module may hold.
PackagesOf(module_descriptor) ==
    IF module_descriptor.path = <<"x">> THEN <<<<"x">>, <<"x", "y">>>>
    ELSE <<module_descriptor.path>>

ThirdPartyPkgInfo(module_descriptor, import_path) ==
    [module_path |-> module_descriptor.path, version |-> module_descriptor.version,
     import_path |-> import_path]

\* What the resolution of a module may answer: a ThirdPartyModuleInfo, whose
\* values() are the packages found in the module, no import path twice, or
\* an error when the module cannot be fetched. Module x is found with any of
\* its packages or not at all; the other modules are found with theirs.
ThirdPartyModuleInfos(module_descriptor) ==
    IF module_descriptor.path = <<"x">>
    THEN {[error |-> TRUE, values |-> <<>>]} \cup
         {[error |-> FALSE,
           values |-> [i \in 1..Len(q) |-> ThirdPartyPkgInfo(module_descriptor, q[i])]] :
             q \in {SelectSeq(PackagesOf(module_descriptor), LAMBDA ip : ip \in S) :
                       S \in SUBSET Range(PackagesOf(module_descriptor))}}
    ELSE {[error |-> FALSE,
           values |-> [i \in 1..Len(PackagesOf(module_descriptor)) |->
                          ThirdPartyPkgInfo(module_descriptor,
                                            PackagesOf(module_descriptor)[i])]]}

\* The answers of the engine to the requests of one manifest.
Engines(addr) ==
    UNION {
        {[go_mod_info |-> [import_path |-> go_mod_import_path(addr), modules |-> ms],
          go_paths |-> fs, module_info |-> mi] :
            fs \in GoPaths(addr),
            mi \in {f \in [Range(ms) -> UNION {ThirdPartyModuleInfos(d) : d \in Range(ms)}] :
                       \A d \in Range(ms) : f[d] \in ThirdPartyModuleInfos(d)}} :
        ms \in DistinctSeqs(ModuleDescriptors, MaxModules)}

\* group_by_dir(go_paths.files): the names of the files of each directory.
group_by_dir(files) ==
    [d \in {files[i].dir : i \in 1..Len(files)} |->
        {files[i].name : i \in {j \in 1..Len(files) : files[j].dir = d}}]

\* The keys of group_by_dir(files) in the order of the dict: a directory is
\* added when its first file is met.
RECURSIVE dirs_in_order(_)
dirs_in_order(files) ==
    IF files = <<>> THEN <<>>
    ELSE LET before == dirs_in_order(SubSeq(files, 1, Len(files) - 1))
             dir == files[Len(files)].dir
         IN IF dir \in Range(before) THEN before ELSE Append(before, dir)

\* Line 225
matched_dirs(files) ==
    SelectSeq(dirs_in_order(files), LAMBDA dir : group_by_dir(files)[dir] # {})

\* Line 254
first_party_pkgs(generator_addr, go_mod_info, go_paths) ==
    LET dirs == matched_dirs(go_paths)
    IN [i \in 1..Len(dirs) |->
           create_first_party_package_tgt(generator_addr, go_mod_info.import_path,
                                          dirs[i], group_by_dir(go_paths)[dirs[i]])]

\* Lines 267-271
third_party_pkgs(generator_addr, all_module_info) ==
    Flatten([i \in 1..Len(all_module_info) |->
                [j \in 1..Len(all_module_info[i].values) |->
                    create_third_party_package_tgt(generator_addr,
                                                   all_module_info[i].values[j])]])

\* Line 272: the targets handed to GeneratedTargets.
generate_targets_from_go_mod(generator_addr, go_mod_info, go_paths, all_module_info) ==
    first_party_pkgs(generator_addr, go_mod_info, go_paths)
        \o third_party_pkgs(generator_addr, all_module_info)

\* Mutant: the answers are taken in the order in which they arrived.
all_module_info_as_completed(modules, answers, completed) ==
    [i \in 1..Len(completed) |-> answers[modules[completed[i]]]]

\* Mutant: only the answer that arrived first is taken.
all_module_info_first_completed(modules, answers, completed) ==
    IF completed = <<>> THEN <<>> ELSE <<answers[modules[completed[1]]]>>

\* Lines 212-222: the MultiGet over go_mod_info.modules gives the answers in
\* the order of the requests, whatever the order they completed in.
all_module_info(modules, answers, completed) ==
    [i \in 1..Len(modules) |-> answers[modules[i]]]

----------------------------------------------------------------------------
(* The rule as actions: its two MultiGets and the completion of each       *)
(* request for a module.                                                   *)

GenInit ==
    /\ generator \in Mods
    /\ engine \in Engines(generator)
    /\ gen_pc = "idle"
    /\ completions = <<>>
    /\ generated_targets = <<>>
    /\ invocations = <<>>
    /\ GoIdleTargets
    /\ JvmIdle

\* Lines 203-211: the rule is invoked and awaits GoModInfo and Paths.
GenerateTargetsFromGoMod ==
    /\ gen_pc \in {"idle", "returned", "raised"}
    /\ Len(invocations) < NumInvocations
    /\ gen_pc' = "go_mod_info, go_paths"
    /\ completions' = <<>>
    /\ generated_targets' = <<>>
    /\ UNCHANGED <<generator, engine, invocations, go_vars, jvm_vars>>

\* Lines 204-222: GoModInfo and Paths are in (the rule takes them by their
\* position in the MultiGet); it requests every module of go_mod_info.
GoModInfoAndPathsReturn ==
    /\ gen_pc = "go_mod_info, go_paths"
    /\ gen_pc' = "all_module_info"
    /\ UNCHANGED <<generator, engine, completions, generated_targets, invocations,
                   go_vars, jvm_vars>>

\* Lines 212-222: the request of module i completes.
ModuleInfoCompletes(i) ==
    /\ gen_pc = "all_module_info"
    /\ i \in 1..Len(engine.go_mod_info.modules)
    /\ i \notin Range(completions)
    /\ ~engine.module_info[engine.go_mod_info.modules[i]].error
    /\ completions' = Append(completions, i)
    /\ UNCHANGED <<generator, engine, gen_pc, generated_targets, invocations,
                   go_vars, jvm_vars>>

\* Lines 212-222: module i cannot be fetched, and the MultiGet raises.
ModuleInfoRaises(i) ==
    /\ gen_pc = "all_module_info"
    /\ i \in 1..Len(engine.go_mod_info.modules)
    /\ i \notin Range(completions)
    /\ engine.module_info[engine.go_mod_info.modules[i]].error
    /\ gen_pc' = "raised"
    /\ invocations' = Append(invocations, [pc |-> "raised", targets |-> <<>>])
    /\ UNCHANGED <<generator, engine, completions, generated_targets, go_vars, jvm_vars>>

\* Lines 224-272: every module has completed; the targets are made.
GenerateTargetsReturns ==
    /\ gen_pc = "all_module_info"
    /\ Range(completions) = 1..Len(engine.go_mod_info.modules)
    /\ LET out == generate_targets_from_go_mod(
                      generator, engine.go_mod_info, engine.go_paths,
                      all_module_info(engine.go_mod_info.modules, engine.module_info,
                                      completions))
       IN /\ generated_targets' = out
          /\ invocations' = Append(invocations, [pc |-> "returned", targets |-> out])
    /\ gen_pc' = "returned"
    /\ UNCHANGED <<generator, engine, completions, go_vars, jvm_vars>>

GenNext ==
    \/ GenerateTargetsFromGoMod
    \/ GoModInfoAndPathsReturn
    \/ \E i \in 1..MaxModules : ModuleInfoCompletes(i)
    \/ \E i \in 1..MaxModules : ModuleInfoRaises(i)
    \/ GenerateTargetsReturns

GenSpec == GenInit /\ [][GenNext]_vars

----------------------------------------------------------------------------
(* Properties of generate_targets_from_go_mod.                             *)

\* The directories that hold a matched file.
DirsWithFiles == {engine.go_paths[i].dir : i \in 1..Len(engine.go_paths)}

\* The path of directory dir relative to the manifest: what is left of dir
\* after the directory of the manifest.
RelativeToManifest(dir) ==
    CHOOSE rel \in {SubSeq(dir, k, Len(dir)) : k \in 1..(Len(dir) + 1)} :
        generator.spec_path \o rel = dir

FirstPartyPkgs ==
    {i \in 1..Len(generated_targets) :
        generated_targets[i].alias = "go_first_party_package"}

\* C11: the rule returns one first-party package per directory holding a
\* matched file and no other; its subpath is the directory relative to the
\* manifest (empty for the manifest's own directory, the directory itself
\* for a manifest at the root), and its import path is the manifest's import
\* path, followed by the subpath when that is not empty.
C11_FirstPartyPerDirectory ==
    gen_pc = "returned" =>
        /\ \A dir \in DirsWithFiles :
              /\ Cardinality({i \in FirstPartyPkgs :
                     generated_targets[i].subpath = RelativeToManifest(dir)}) = 1
              /\ dir = generator.spec_path => RelativeToManifest(dir) = <<>>
              /\ generator.spec_path = <<>> => RelativeToManifest(dir) = dir
        /\ \A i \in FirstPartyPkgs :
              /\ generator.spec_path \o generated_targets[i].subpath \in DirsWithFiles
              /\ generated_targets[i].import_path =
                    IF generated_targets[i].subpath = <<>>
                    THEN engine.go_mod_info.import_path
                    ELSE engine.go_mod_info.import_path \o generated_targets[i].subpath

C11_Witness ==
    /\ gen_pc = "returned"
    /\ generator = ModA
    /\ DirsWithFiles = {<<"a">>, <<"a", "pkg", "sub">>}
    /\ \E i, j \in FirstPartyPkgs :
          /\ generated_targets[i].subpath = <<>>
          /\ generated_targets[i].import_path = <<"m", "a">>
          /\ generated_targets[j].subpath = <<"pkg", "sub">>
          /\ generated_targets[j].import_path = <<"m", "a", "pkg", "sub">>

\* The addresses an invocation generated.
GeneratedAddresses(invocation) ==
    {invocation.targets[k].address : k \in 1..Len(invocation.targets)}

----------------------------------------------------------------------------
(* The two rules that issue a concurrent batch, each run on its own: a      *)
(* behaviour is a build of resources units or the expansion of a manifest. *)

BatchInit == JvmInit \/ GenInit

BatchNext ==
    \/ component # <<>> /\ JvmNext
    \/ generator \in Mods /\ GenNext

BatchSpec == BatchInit /\ [][BatchNext]_vars

\* The position in go_mod_info.modules of the module a third-party unit is of.
ModuleIndex(tgt) ==
    CHOOSE i \in 1..Len(engine.go_mod_info.modules) :
        engine.go_mod_info.modules[i].path = tgt.module_path

\* assemble_resources_jar has its upstream results: each was returned before,
\* and they are held, and merged after the unit's own entry, in the order of
\* the requests (prerequisite, then dependencies as declared).
ResourcesBatchInRequestOrder(u) ==
    fallibles[u] # <<>> =>
        /\ \A v \in Range(Upstream(u)) : pc[v] = "returned"
        /\ fallibles[u][1] \o fallibles[u][2] =
              [i \in 1..Len(Upstream(u)) |-> entry[Upstream(u)[i]]]
        /\ (pc[u] = "returned" /\ entry[u].result = "SUCCEEDED") =>
              entry[u].output[1].filenames =
                  <<u>> \o Flatten([i \in 1..Len(Upstream(u)) |->
                                       entry[Upstream(u)[i]].output[1].filenames])

\* generate_targets_from_go_mod has returned: every module had completed,
\* the third-party units come in the order of go_mod_info.modules, and every
\* invocation returned the same sequence of units.
ModulesBatchInRequestOrder ==
    /\ gen_pc = "returned" =>
          /\ Range(completions) = 1..Len(engine.go_mod_info.modules)
          /\ \A k, l \in 1..Len(generated_targets) :
                (/\ k < l
                 /\ generated_targets[k].alias = "go_third_party_package"
                 /\ generated_targets[l].alias = "go_third_party_package") =>
                    ModuleIndex(generated_targets[k]) <= ModuleIndex(generated_targets[l])
    /\ \A i, j \in 1..Len(invocations) : invocations[i].targets = invocations[j].targets

\* C13: whatever the order in which the requests of a batch complete, the
\* rule waits for all of them and takes their results in request order: the
\* merged entry list of assemble_resources_jar and the unit sequence of
\* generate_targets_from_go_mod are the same in every interleaving.
C13_BatchOrderIndependent ==
    /\ component # <<>> => \A u \in Resources : ResourcesBatchInRequestOrder(u)
    /\ generator \in Mods => ModulesBatchInRequestOrder

C13_Witness ==
    /\ gen_pc = "returned"
    /\ completions = <<2, 1>>
    /\ Len(invocations) = 2
    /\ \E k, l \in 1..Len(generated_targets) :
          /\ k < l
          /\ generated_targets[k].alias = "go_third_party_package"
          /\ generated_targets[l].alias = "go_third_party_package"
          /\ ModuleIndex(generated_targets[k]) = 1
          /\ ModuleIndex(generated_targets[l]) = 2

----------------------------------------------------------------------------
\* C14 as claimed: the units of one expansion have pairwise distinct
\* addresses, whatever the files and the resolved modules are.
C14_AddressesPairwiseDistinct ==
    gen_pc = "returned" =>
        \A k, l \in 1..Len(generated_targets) :
            k # l => generated_targets[k].address # generated_targets[l].address

\* Two modules of the manifest hold a package of the same import path, and
\* the expansion makes two third-party units of one address that differ in
\* their module path.
C14_SharedAddress ==
    /\ gen_pc = "returned"
    /\ \E k, l \in 1..Len(generated_targets) :
          /\ k # l
          /\ generated_targets[k].alias = "go_third_party_package"
          /\ generated_targets[l].alias = "go_third_party_package"
          /\ generated_targets[k].address = generated_targets[l].address
          /\ generated_targets[k].module_path # generated_targets[l].module_path

====
